---- MODULE Spec2Model ----
(***************************************************************************)
(* Model of netflix_analysis.py: the module-level set-up, pick_title_sheet *)
(* and main(), one action per block of main().                             *)
(*                                                                         *)
(* Text is a sequence of one-character strings, so that the regular        *)
(* expressions, strip(), lower() and replace() of the program act on       *)
(* characters.  A table cell is missing (NaN), a text or a number.         *)
(* pandas is modelled with the object-dtype semantics of pandas 1.x/2.x    *)
(* (astype(str) turns a missing value into the text "nan").                *)
(***************************************************************************)
EXTENDS Integers, Sequences, FiniteSets, TLC

----------------------------------------------------------------------------
(* Bounds of the model                                                     *)

MaxRows == 2        \* rows of a table in the type / year / title inputs
MaxDurRows == 1     \* rows of a table in the duration inputs
MaxTextLen == 2     \* length of the generated duration texts
MaxSheets == 2      \* sheets of a workbook in the sheet-selection inputs

----------------------------------------------------------------------------
(* Characters and str methods                                              *)

Lower == <<"a", "b", "c", "d", "e", "f", "g", "h", "i", "j", "k", "l", "m",
           "n", "o", "p", "q", "r", "s", "t", "u", "v", "w", "x", "y", "z">>
Upper == <<"A", "B", "C", "D", "E", "F", "G", "H", "I", "J", "K", "L", "M",
           "N", "O", "P", "Q", "R", "S", "T", "U", "V", "W", "X", "Y", "Z">>
DigitChars == <<"0", "1", "2", "3", "4", "5", "6", "7", "8", "9">>

\* the characters of the model in code-point order
Ascii == <<" ", ".", "/">> \o DigitChars \o Upper \o <<"_">> \o Lower

Range(f) == {f[i] : i \in DOMAIN f}

IsDigit(c) == c \in Range(DigitChars)
IsAlpha(c) == c \in Range(Lower) \cup Range(Upper)
IsSpace(c) == c = " "

Ord(c) == CHOOSE i \in DOMAIN Ascii : Ascii[i] = c

LowerChar(c) ==
    IF c \in Range(Upper)
    THEN Lower[CHOOSE i \in DOMAIN Upper : Upper[i] = c]
    ELSE c

StrLower(s) == [i \in 1..Len(s) |-> LowerChar(s[i])]

RECURSIVE LStrip(_)
LStrip(s) ==
    IF s # <<>> /\ IsSpace(Head(s)) THEN LStrip(Tail(s)) ELSE s

RECURSIVE RStrip(_)
RStrip(s) ==
    IF s # <<>> /\ IsSpace(s[Len(s)])
    THEN RStrip(SubSeq(s, 1, Len(s) - 1))
    ELSE s

StrStrip(s) == RStrip(LStrip(s))

StrReplace(s, old, new) ==
    [i \in 1..Len(s) |-> IF s[i] = old THEN new ELSE s[i]]

\* pat in s
StrIn(pat, s) ==
    \E i \in 1..(Len(s) - Len(pat) + 1) : SubSeq(s, i, i + Len(pat) - 1) = pat

\* s < t in code-point order
RECURSIVE StrLess(_, _)
StrLess(s, t) ==
    IF t = <<>> THEN FALSE
    ELSE IF s = <<>> THEN TRUE
    ELSE IF Head(s) # Head(t) THEN Ord(Head(s)) < Ord(Head(t))
    ELSE StrLess(Tail(s), Tail(t))

DigitVal(c) == (CHOOSE i \in DOMAIN DigitChars : DigitChars[i] = c) - 1

RECURSIVE ParseInt(_)
ParseInt(s) ==
    IF s = <<>> THEN 0
    ELSE 10 * ParseInt(SubSeq(s, 1, Len(s) - 1)) + DigitVal(s[Len(s)])

RECURSIVE IntToStr(_)
IntToStr(n) ==
    IF n < 10 THEN <<DigitChars[n + 1]>>
    ELSE IntToStr(n \div 10) \o <<DigitChars[(n % 10) + 1]>>

----------------------------------------------------------------------------
(* Regular expressions (\d+) and ([A-Za-z]+): leftmost match, greedy       *)

InClass(c, cls) == IF cls = "digit" THEN IsDigit(c) ELSE IsAlpha(c)

\* the first position >= i whose character is in the class, 0 if none
RECURSIVE SearchFrom(_, _, _)
SearchFrom(s, i, cls) ==
    IF i > Len(s) THEN 0
    ELSE IF InClass(s[i], cls) THEN i
    ELSE SearchFrom(s, i + 1, cls)

\* a non-greedy run: the match ends where it starts
RunEndLazy(s, i, cls) == i

\* the last position of the run of class characters that starts at i
RECURSIVE RunEnd(_, _, _)
RunEnd(s, i, cls) ==
    IF i < Len(s) /\ InClass(s[i + 1], cls) THEN RunEnd(s, i + 1, cls) ELSE i

----------------------------------------------------------------------------
(* Cells and Series methods, applied to one cell                           *)

\* a number is n + f/10: f is the first decimal of a float read from a cell
NaN == [k |-> "nan", s |-> <<>>, n |-> 0, f |-> 0]
Txt(s) == [k |-> "str", s |-> s, n |-> 0, f |-> 0]
Num(n) == [k |-> "num", s |-> <<>>, n |-> n, f |-> 0]
Flt(n, f) == [k |-> "num", s |-> <<>>, n |-> n, f |-> f]

IsNa(c) == c.k = "nan"

\* Series.astype(str)
AsStr(c) ==
    IF c.k = "nan" THEN Txt(<<"n", "a", "n">>)
    ELSE IF c.k = "num"
    THEN IF c.f = 0 THEN Txt(IntToStr(c.n))
         ELSE Txt(IntToStr(c.n) \o <<".">> \o IntToStr(c.f))
    ELSE c

\* Series.astype(int): truncation
AsInt(c) == Num(c.n)

\* Series.str.extract(pattern)[0]
StrExtract(c, cls) ==
    IF c.k # "str" THEN NaN
    ELSE LET i == SearchFrom(c.s, 1, cls)
         IN  IF i = 0 THEN NaN ELSE Txt(SubSeq(c.s, i, RunEnd(c.s, i, cls)))

\* pd.to_numeric(errors="coerce"), on the texts of the model
ToNumeric(c) ==
    IF c.k = "num" THEN c
    ELSE IF c.k = "str" /\ c.s # <<>> /\ \A i \in 1..Len(c.s) : IsDigit(c.s[i])
    THEN Num(ParseInt(c.s))
    ELSE NaN

\* Series.str.lower(), Series.str.strip()
CellLower(c) == IF c.k = "str" THEN Txt(StrLower(c.s)) ELSE NaN
CellStrip(c) == IF c.k = "str" THEN Txt(StrStrip(c.s)) ELSE NaN

\* Series.str.contains(pat, na=False)
StrContains(c, pat) == c.k = "str" /\ StrIn(pat, c.s)

\* Series.where(cond)
Where(c, cond) == IF cond THEN c ELSE NaN

----------------------------------------------------------------------------
(* DataFrames: a sequence of column names and a sequence of rows           *)

EmptyDf == [columns |-> <<>>, rows |-> <<>>]

HasCol(d, name) == \E i \in 1..Len(d.columns) : d.columns[i] = name

ColIdx(d, name) ==
    CHOOSE i \in 1..Len(d.columns) :
        /\ d.columns[i] = name
        /\ \A j \in 1..(i - 1) : d.columns[j] # name

\* d[name]
Col(d, name) == [r \in 1..Len(d.rows) |-> d.rows[r][ColIdx(d, name)]]

\* d[name] = vals
SetCol(d, name, vals) ==
    IF HasCol(d, name)
    THEN [d EXCEPT !.rows =
             [r \in 1..Len(d.rows) |->
                 [d.rows[r] EXCEPT ![ColIdx(d, name)] = vals[r]]]]
    ELSE [columns |-> Append(d.columns, name),
          rows |-> [r \in 1..Len(d.rows) |-> Append(d.rows[r], vals[r])]]

\* d.dropna(subset=[name])
DropNa(d, name) ==
    [d EXCEPT !.rows = SelectSeq(d.rows, LAMBDA row : ~IsNa(row[ColIdx(d, name)]))]

\* the distinct values of a sequence in order of first appearance
RECURSIVE Uniques(_)
Uniques(vals) ==
    IF vals = <<>> THEN <<>>
    ELSE LET front == SubSeq(vals, 1, Len(vals) - 1)
             last == vals[Len(vals)]
         IN  IF last \in Range(front) THEN Uniques(front)
             ELSE Append(Uniques(front), last)

Count(vals, v) == Cardinality({i \in 1..Len(vals) : vals[i] = v})

\* insert a (value, count) entry behind the entries whose count is not smaller
RECURSIVE InsertByCount(_, _)
InsertByCount(sorted, e) ==
    IF sorted = <<>> THEN <<e>>
    ELSE IF Head(sorted).count >= e.count
    THEN <<Head(sorted)>> \o InsertByCount(Tail(sorted), e)
    ELSE <<e>> \o sorted

RECURSIVE SortByCount(_)
SortByCount(entries) ==
    IF entries = <<>> THEN <<>>
    ELSE InsertByCount(SortByCount(SubSeq(entries, 1, Len(entries) - 1)),
                       entries[Len(entries)])

\* value_counts that counts each distinct value once
ValueCountsOfKeys(vals, dropna) ==
    LET kept == IF dropna THEN SelectSeq(vals, LAMBDA c : ~IsNa(c)) ELSE vals
        keys == Uniques(kept)
    IN  SortByCount([i \in 1..Len(keys) |->
                        [value |-> keys[i], count |-> Count(keys, keys[i])]])

\* Series.value_counts(dropna): descending counts, ties in order of appearance
ValueCounts(vals, dropna) ==
    LET kept == IF dropna THEN SelectSeq(vals, LAMBDA c : ~IsNa(c)) ELSE vals
        keys == Uniques(kept)
    IN  SortByCount([i \in 1..Len(keys) |->
                        [value |-> keys[i], count |-> Count(kept, keys[i])]])

\* Series.head(n)
HeadN(seq, n) == SubSeq(seq, 1, IF Len(seq) < n THEN Len(seq) ELSE n)

\* Index.sort_values / sort_index on integers and on texts
RECURSIVE SortInts(_)
SortInts(S) ==
    IF S = {} THEN <<>>
    ELSE LET m == CHOOSE x \in S : \A y \in S : x <= y
         IN  <<m>> \o SortInts(S \ {m})

RECURSIVE SortStrs(_)
SortStrs(S) ==
    IF S = {} THEN <<>>
    ELSE LET m == CHOOSE x \in S : \A y \in S : y = x \/ StrLess(x, y)
         IN  <<m>> \o SortStrs(S \ {m})

----------------------------------------------------------------------------
(* Program constants                                                       *)

HERE == "HERE"
DATA_FILE == "netflix_titles.xlsx"
preferred == <<"netflix_titles", "titles", "sheet1", "Sheet1">>
TopN == 10

C_type == <<"t", "y", "p", "e">>
C_release_year == <<"r", "e", "l", "e", "a", "s", "e", "_", "y", "e", "a", "r">>
C_title == <<"t", "i", "t", "l", "e">>
C_rating == <<"r", "a", "t", "i", "n", "g">>
C_duration == <<"d", "u", "r", "a", "t", "i", "o", "n">>
C_duration_minutes ==
    <<"d", "u", "r", "a", "t", "i", "o", "n", "_", "m", "i", "n", "u", "t", "e", "s">>
C_duration_seasons ==
    <<"d", "u", "r", "a", "t", "i", "o", "n", "_", "s", "e", "a", "s", "o", "n", "s">>
C_duration_number ==
    <<"d", "u", "r", "a", "t", "i", "o", "n", "_", "n", "u", "m", "b", "e", "r">>
C_duration_unit ==
    <<"d", "u", "r", "a", "t", "i", "o", "n", "_", "u", "n", "i", "t">>

S_min == <<"m", "i", "n">>
S_season == <<"s", "e", "a", "s", "o", "n">>
S_nan == <<"n", "a", "n">>

----------------------------------------------------------------------------
(* pick_title_sheet                                                        *)

\* a loop that tries only the first preferred name
PickNameFirstOnly(sheet_names, i) ==
    IF preferred[1] \in Range(sheet_names) THEN preferred[1] ELSE sheet_names[1]

\* the loop over preferred from position i on, then the fallback
RECURSIVE PickName(_, _)
PickName(sheet_names, i) ==
    IF i > Len(preferred) THEN sheet_names[1]
    ELSE IF preferred[i] \in Range(sheet_names) THEN preferred[i]
    ELSE PickName(sheet_names, i + 1)

\* pd.read_excel(excel_path, sheet_name=name)
ReadExcel(f, name) ==
    f.sheets[CHOOSE i \in 1..Len(f.sheet_names) : f.sheet_names[i] = name]

----------------------------------------------------------------------------
(* The message of the FileNotFoundError of main(), part by part            *)

\* a message that leaves out the directory
NotFoundMessageNoDir ==
    <<"Could not find ", DATA_FILE,
      "Put netflix_titles.xlsx in the same folder as this script.">>

NotFoundMessage ==
    <<"Could not find ", DATA_FILE, " in:\n", HERE, "\n",
      "Put netflix_titles.xlsx in the same folder as this script.">>

NoError == [type |-> "", msg |-> <<>>]

----------------------------------------------------------------------------
(* Input files                                                             *)

SeqsUpTo(S, n) == UNION {[1..k -> S] : k \in 0..n}

NoFile == [exists |-> FALSE, sheet_names |-> <<>>, sheets |-> <<>>]

Workbook(table) ==
    [exists |-> TRUE, sheet_names |-> <<"netflix_titles">>, sheets |-> <<table>>]

\* the seven columns the program looks at, and a spelling of each header that
\* the column normalisation maps to it
AllCols == <<C_type, C_release_year, C_title, C_rating, C_duration,
             C_duration_minutes, C_duration_seasons>>
RawHeaders ==
    << <<"T", "y", "p", "e">>,
       <<"R", "e", "l", "e", "a", "s", "e", " ", "Y", "e", "a", "r">>,
       <<" ", "T", "i", "t", "l", "e">>,
       <<"R", "a", "t", "i", "n", "g">>,
       <<"D", "u", "r", "a", "t", "i", "o", "n", " ">>,
       <<"D", "u", "r", "a", "t", "i", "o", "n", " ", "M", "i", "n", "u", "t", "e", "s">>,
       <<"d", "u", "r", "a", "t", "i", "o", "n", " ", "S", "e", "a", "s", "o", "n", "s">> >>

\* the table with the columns S (positions in AllCols) of the given full rows
TableOf(S, style, fullrows) ==
    LET idx == SortInts(S)
    IN  [columns |-> [i \in 1..Len(idx) |->
                         IF style = "raw" THEN RawHeaders[idx[i]] ELSE AllCols[idx[i]]],
         rows |-> IF S = {} THEN <<>>
                  ELSE [r \in 1..Len(fullrows) |->
                           [i \in 1..Len(idx) |-> fullrows[r][idx[i]]]]]

T_Movie == <<"M", "o", "v", "i", "e">>
T_TV == <<"T", "V", " ">>
T_A == <<"A">>
T_PG == <<"P", "G">>
T_90min == <<"9", "0", " ", "m", "i", "n">>
T_3Seasons == <<"3", " ", "S", "e", "a", "s", "o", "n", "s">>
T_NA == <<"N", "/", "A">>

\* inputs about the type, release_year and title columns
TypeCells == {NaN, Txt(<<" ", "n", "a", "n">>), Txt(T_TV)}
YearCells == {NaN, Flt(2021, 5), Txt(<<"2", "0", "1", "9">>), Txt(<<"x">>)}
TitleCells == {NaN, Txt(T_A)}
TypeRows ==
    {<<t, y, ti, NaN, NaN, NaN, NaN>> : t \in TypeCells, y \in YearCells, ti \in TitleCells}
TypeFiles ==
    {Workbook(TableOf(S, "norm", rs)) :
        S \in SUBSET {1, 2, 3}, rs \in SeqsUpTo(TypeRows, MaxRows)}

\* inputs about the duration columns
ExampleTexts ==
    {T_90min, T_3Seasons, T_NA,
     <<"5", " ", "m", "i", "n", "s", "e", "a", "s", "o", "n", "s">>,
     <<"1", " ", "S", "e", "a", "s", "o", "n">>,
     <<"S", "e", "a", "s", "o", "n", " ", "2">>,
     <<"1", "0", "0", " ", "M", "I", "N">>,
     <<"s", "3", " ", "e", "4", " ", "m", "i", "n">>,
     <<"m", "i", "n">>,
     <<"7", "m", "i", "n">>,
     <<"9", "0", ".", "5", " ", "m", "i", "n", "s">>}
GenAlphabet == {"7", "S", " "}
GeneratedTexts == SeqsUpTo(GenAlphabet, MaxTextLen)
DurationCells == {NaN} \cup {Txt(t) : t \in ExampleTexts \cup GeneratedTexts}
DurRows == {<<NaN, NaN, NaN, NaN, d, NaN, NaN>> : d \in DurationCells}
PreRows ==
    {<<NaN, NaN, NaN, NaN, d, m, s>> :
        d \in {NaN, Txt(T_90min)}, m \in {NaN, Num(90)}, s \in {NaN, Num(3)}}
DurationFiles ==
    {Workbook(TableOf({5}, "raw", rs)) : rs \in SeqsUpTo(DurRows, MaxDurRows)}
    \cup {Workbook(TableOf(S, "raw", rs)) :
              S \in SUBSET {5, 6, 7}, rs \in SeqsUpTo(PreRows, MaxDurRows)}

\* inputs with every combination of present and absent columns
TemplateRows ==
    {<<Txt(T_Movie), Num(2020), Txt(T_A), Txt(T_PG), Txt(T_90min), Num(90), NaN>>,
     <<NaN, Txt(<<"x">>), NaN, NaN, Txt(T_3Seasons), NaN, Num(3)>>}
ColumnFiles ==
    {Workbook(TableOf(S, style, rs)) :
        S \in SUBSET (1..7), style \in {"norm", "raw"},
        rs \in SeqsUpTo(TemplateRows, MaxRows)}

\* workbooks with several sheets; the table of a sheet carries the sheet's name
SheetNameSet == {"netflix_titles", "titles", "sheet1", "Sheet1", "Titles", "data"}
SheetTable(name) == [columns |-> <<C_title>>, rows |-> << <<Txt(<<name>>)>> >>]
SheetFiles ==
    {[exists |-> TRUE, sheet_names |-> names,
      sheets |-> [i \in 1..Len(names) |-> SheetTable(names[i])]] :
        names \in {ns \in SeqsUpTo(SheetNameSet, MaxSheets) :
                      /\ Len(ns) >= 1
                      /\ \A i, j \in 1..Len(ns) : i # j => ns[i] # ns[j]}}

InputFiles == {NoFile} \cup TypeFiles \cup DurationFiles \cup ColumnFiles \cup SheetFiles

----------------------------------------------------------------------------
(* State                                                                   *)

VARIABLES
    pc,             \* the block of the program that runs next
    file,           \* the input file beside the script, if any
    outDir,         \* OUT_DIR exists
    loader_called,  \* pick_title_sheet has been called
    reads,          \* the sheets read with pd.read_excel, in order
    df,             \* the DataFrame of main()
    written,        \* the files written into OUT_DIR, in order
    by_type,        \* the rows of count_by_type.csv
    pivot,          \* the year-by-type pivot of chart 1
    counts,         \* the year counts of chart 1 without a type column
    top,            \* the bars of chart 2
    mins,           \* the values of the histogram of chart 3
    summary,        \* the content of summary.txt
    error           \* the exception that ended the run, if any

vars == <<pc, file, outDir, loader_called, reads, df, written, by_type, pivot,
          counts, top, mins, summary, error>>

NoPivot == [made |-> FALSE, index |-> <<>>, columns |-> <<>>, cells |-> <<>>]
NoSummary == [rows |-> -1, unique |-> -1, types |-> <<>>]

Init ==
    /\ pc = "import"
    /\ file \in InputFiles
    /\ outDir = FALSE
    /\ loader_called = FALSE
    /\ reads = <<>>
    /\ df = EmptyDf
    /\ written = <<>>
    /\ by_type = <<>>
    /\ pivot = NoPivot
    /\ counts = <<>>
    /\ top = <<>>
    /\ mins = <<>>
    /\ summary = NoSummary
    /\ error = NoError

----------------------------------------------------------------------------
(* Module level and the head of main()                                     *)

\* OUT_DIR.mkdir(exist_ok=True)
Import ==
    /\ pc = "import"
    /\ outDir' = TRUE
    /\ pc' = "main"
    /\ UNCHANGED <<file, loader_called, reads, df, written, by_type, pivot,
                   counts, top, mins, summary, error>>

\* if not DATA_FILE.exists(): raise FileNotFoundError(...)
CheckDataFile ==
    /\ pc = "main"
    /\ IF ~file.exists
       THEN /\ error' = [type |-> "FileNotFoundError", msg |-> NotFoundMessage]
            /\ pc' = "raised"
       ELSE /\ pc' = "load"
            /\ UNCHANGED error
    /\ UNCHANGED <<file, outDir, loader_called, reads, df, written, by_type,
                   pivot, counts, top, mins, summary>>

\* df = pick_title_sheet(DATA_FILE)
Load ==
    /\ pc = "load"
    /\ LET name == PickName(file.sheet_names, 1)
       IN  /\ df' = ReadExcel(file, name)
           /\ reads' = Append(reads, name)
    /\ loader_called' = TRUE
    /\ pc' = "columns"
    /\ UNCHANGED <<file, outDir, written, by_type, pivot, counts, top, mins,
                   summary, error>>

\* c.strip().lower().replace(" ", "_")
NormalizeName(c) == StrReplace(StrLower(StrStrip(c)), " ", "_")

NormalizeColumns ==
    /\ pc = "columns"
    /\ df' = [df EXCEPT !.columns = [i \in 1..Len(df.columns) |-> NormalizeName(df.columns[i])]]
    /\ pc' = "duration"
    /\ UNCHANGED <<file, outDir, loader_called, reads, written, by_type, pivot,
                   counts, top, mins, summary, error>>

----------------------------------------------------------------------------
(* Duration parsing                                                        *)

DurationNumber(c) == ToNumeric(StrExtract(AsStr(c), "digit"))
DurationUnit(c) == CellLower(StrExtract(AsStr(c), "alpha"))
DurationMinutes(c) == Where(DurationNumber(c), StrContains(DurationUnit(c), S_min))
\* duration_seasons without the mask on the unit
DurationSeasonsUnmasked(c) == DurationNumber(c)
DurationSeasons(c) == Where(DurationNumber(c), StrContains(DurationUnit(c), S_season))

NaCol(d) == [r \in 1..Len(d.rows) |-> NaN]

ParseDurationDf(d) ==
    IF /\ HasCol(d, C_duration)
       /\ ~HasCol(d, C_duration_minutes)
       /\ ~HasCol(d, C_duration_seasons)
    THEN LET d1 == SetCol(d, C_duration_number, [r \in 1..Len(d.rows) |-> DurationNumber(Col(d, C_duration)[r])])
             d2 == SetCol(d1, C_duration_unit, [r \in 1..Len(d.rows) |-> DurationUnit(Col(d, C_duration)[r])])
             d3 == SetCol(d2, C_duration_minutes, [r \in 1..Len(d.rows) |-> DurationMinutes(Col(d, C_duration)[r])])
         IN  SetCol(d3, C_duration_seasons, [r \in 1..Len(d.rows) |-> DurationSeasons(Col(d, C_duration)[r])])
    ELSE LET d1 == IF ~HasCol(d, C_duration_minutes)
                   THEN SetCol(d, C_duration_minutes, NaCol(d)) ELSE d
         IN  IF ~HasCol(d1, C_duration_seasons)
             THEN SetCol(d1, C_duration_seasons, NaCol(d1)) ELSE d1

ParseDuration ==
    /\ pc = "duration"
    /\ df' = ParseDurationDf(df)
    /\ pc' = "type"
    /\ UNCHANGED <<file, outDir, loader_called, reads, written, by_type, pivot,
                   counts, top, mins, summary, error>>

----------------------------------------------------------------------------
(* Type column and the summary table                                       *)

\* df["type"].astype(str).str.strip()
StripTypeCell(c) == CellStrip(AsStr(c))

StripType ==
    /\ pc = "type"
    /\ df' = IF HasCol(df, C_type)
             THEN SetCol(df, C_type, [r \in 1..Len(df.rows) |-> StripTypeCell(Col(df, C_type)[r])])
             ELSE df
    /\ pc' = "by_type"
    /\ UNCHANGED <<file, outDir, loader_called, reads, written, by_type, pivot,
                   counts, top, mins, summary, error>>

\* df["type"].value_counts(dropna=False)
TypeCounts(d) == ValueCounts(Col(d, C_type), FALSE)

SummaryTable ==
    /\ pc = "by_type"
    /\ IF HasCol(df, C_type)
       THEN /\ by_type' = TypeCounts(df)
            /\ written' = Append(written, "count_by_type.csv")
       ELSE UNCHANGED <<by_type, written>>
    /\ pc' = "chart1"
    /\ UNCHANGED <<file, outDir, loader_called, reads, df, pivot, counts, top,
                   mins, summary, error>>

----------------------------------------------------------------------------
(* Chart 1: titles by release year                                         *)

FillValue == 0

\* tmp: the records with a parseable release_year, the year as an integer
YearFilter(d) ==
    LET t1 == DropNa(d, C_release_year)
        t2 == SetCol(t1, C_release_year, [r \in 1..Len(t1.rows) |-> ToNumeric(Col(t1, C_release_year)[r])])
        t3 == DropNa(t2, C_release_year)
    IN  SetCol(t3, C_release_year, [r \in 1..Len(t3.rows) |-> AsInt(Col(t3, C_release_year)[r])])

\* the keys of the groups of tmp.groupby(["release_year", "type"])
GroupKeys(tmp) ==
    {<<Col(tmp, C_release_year)[r].n, Col(tmp, C_type)[r].s>> :
        r \in {q \in 1..Len(tmp.rows) : ~IsNa(Col(tmp, C_type)[q])}}

\* aggfunc="count" on values="title": the non-missing titles of a group
TitleCount(tmp, key) ==
    Cardinality({r \in 1..Len(tmp.rows) :
        /\ Col(tmp, C_release_year)[r].n = key[1]
        /\ Col(tmp, C_type)[r] = Txt(key[2])
        /\ ~IsNa(Col(tmp, C_title)[r])})

\* the row index after .sort_index() and the sorted column index
\* a row index left in descending order
PivotIndexDescending(keys) ==
    LET asc == SortInts({key[1] : key \in keys})
    IN  [i \in 1..Len(asc) |-> asc[Len(asc) + 1 - i]]
PivotIndex(keys) == SortInts({key[1] : key \in keys})
PivotColumns(keys) == SortStrs({key[2] : key \in keys})

\* the cell of a year and a type: the group's count, fill_value without a group
PivotCell(tmp, year, type) ==
    IF <<year, type>> \in GroupKeys(tmp)
    THEN TitleCount(tmp, <<year, type>>)
    ELSE FillValue

PivotTable(tmp) ==
    LET keys == GroupKeys(tmp)
        index == PivotIndex(keys)
        columns == PivotColumns(keys)
    IN  [made |-> TRUE, index |-> index, columns |-> columns,
         cells |-> [i \in 1..Len(index) |->
                       [j \in 1..Len(columns) |-> PivotCell(tmp, index[i], columns[j])]]]

\* tmp.groupby("release_year").size().sort_index()
YearCounts(tmp) ==
    LET years == [r \in 1..Len(tmp.rows) |-> Col(tmp, C_release_year)[r].n]
        index == SortInts(Range(years))
    IN  [i \in 1..Len(index) |-> [year |-> index[i], count |-> Count(years, index[i])]]

YearChart ==
    /\ pc = "chart1"
    /\ IF ~HasCol(df, C_release_year)
       THEN /\ pc' = "chart2"
            /\ UNCHANGED <<pivot, counts, written, error>>
       ELSE LET tmp == YearFilter(df)
            IN  IF HasCol(tmp, C_type)
                THEN IF ~HasCol(tmp, C_title)
                     THEN \* pivot_table: values="title" is not a column
                          /\ error' = [type |-> "KeyError", msg |-> <<"title">>]
                          /\ pc' = "raised"
                          /\ UNCHANGED <<pivot, counts, written>>
                     ELSE /\ pivot' = PivotTable(tmp)
                          /\ IF pivot'.columns = <<>>
                             THEN \* pivot.plot() on a frame without columns
                                  /\ error' = [type |-> "TypeError",
                                               msg |-> <<"no numeric data to plot">>]
                                  /\ pc' = "raised"
                                  /\ UNCHANGED <<counts, written>>
                             ELSE /\ written' = Append(written, "titles_by_year_by_type.png")
                                  /\ pc' = "chart2"
                                  /\ UNCHANGED <<counts, error>>
                ELSE /\ counts' = YearCounts(tmp)
                     /\ written' = Append(written, "titles_by_year.png")
                     /\ pc' = "chart2"
                     /\ UNCHANGED <<pivot, error>>
    /\ UNCHANGED <<file, outDir, loader_called, reads, df, by_type, top, mins,
                   summary>>

----------------------------------------------------------------------------
(* Chart 2: top 10 ratings                                                 *)

\* astype(str).replace({"nan": pd.NA})
RatingCell(c) == IF AsStr(c) = Txt(S_nan) THEN NaN ELSE AsStr(c)

Reverse(seq) == [i \in 1..Len(seq) |-> seq[Len(seq) + 1 - i]]

RatingsChart ==
    /\ pc = "chart2"
    /\ IF HasCol(df, C_rating)
       THEN /\ top' = Reverse(HeadN(ValueCounts([r \in 1..Len(df.rows) |-> RatingCell(Col(df, C_rating)[r])], TRUE), TopN))
            /\ written' = Append(written, "top_10_ratings.png")
       ELSE UNCHANGED <<top, written>>
    /\ pc' = "chart3"
    /\ UNCHANGED <<file, outDir, loader_called, reads, df, by_type, pivot,
                   counts, mins, summary, error>>

----------------------------------------------------------------------------
(* Chart 3: movie duration histogram                                       *)

\* pd.to_numeric(df["duration_minutes"], errors="coerce").dropna()
Minutes(d) ==
    SelectSeq([r \in 1..Len(d.rows) |-> ToNumeric(Col(d, C_duration_minutes)[r])], LAMBDA c : ~IsNa(c))

DurationHist ==
    /\ pc = "chart3"
    /\ IF Len(Minutes(df)) > 0
       THEN /\ mins' = Minutes(df)
            /\ written' = Append(written, "movie_duration_hist.png")
       ELSE UNCHANGED <<mins, written>>
    /\ pc' = "summary"
    /\ UNCHANGED <<file, outDir, loader_called, reads, df, by_type, pivot,
                   counts, top, summary, error>>

----------------------------------------------------------------------------
(* Text summary                                                            *)

\* Series.nunique()
NUnique(vals) == Cardinality({c \in Range(vals) : ~IsNa(c)})

TextSummary ==
    /\ pc = "summary"
    /\ summary' = [rows |-> Len(df.rows),
                   unique |-> IF HasCol(df, C_title) THEN NUnique(Col(df, C_title)) ELSE -1,
                   types |-> IF HasCol(df, C_type) THEN TypeCounts(df) ELSE <<>>]
    /\ written' = Append(written, "summary.txt")
    /\ pc' = "done"
    /\ UNCHANGED <<file, outDir, loader_called, reads, df, by_type, pivot,
                   counts, top, mins, error>>

----------------------------------------------------------------------------

Next ==
    \/ Import
    \/ CheckDataFile
    \/ Load
    \/ NormalizeColumns
    \/ ParseDuration
    \/ StripType
    \/ SummaryTable
    \/ YearChart
    \/ RatingsChart
    \/ DurationHist
    \/ TextSummary

Spec == Init /\ [][Next]_vars

----------------------------------------------------------------------------
(* Vocabulary of the properties                                            *)

\* the table that was read, and its columns under their normalised names
InputTable ==
    file.sheets[CHOOSE i \in 1..Len(file.sheet_names) : file.sheet_names[i] = reads[1]]
InputHas(name) ==
    \E i \in 1..Len(InputTable.columns) : NormalizeName(InputTable.columns[i]) = name
InputCell(r, name) ==
    InputTable.rows[r][CHOOSE i \in 1..Len(InputTable.columns) :
                           NormalizeName(InputTable.columns[i]) = name]

\* the normalisation of main() (lines 50-63) has run
Normalized == loader_called /\ pc \notin {"columns", "duration"}
Records == 1..Len(df.rows)
Cell(r, name) == df.rows[r][ColIdx(df, name)]
Populated(r, name) == ~IsNa(Cell(r, name))

\* positions i..j are the first maximal run of class characters of s
IsFirstRun(s, i, j, cls) ==
    /\ 1 <= i /\ i <= j /\ j <= Len(s)
    /\ \A k \in i..j : InClass(s[k], cls)
    /\ \A k \in 1..(i - 1) : ~InClass(s[k], cls)
    /\ j = Len(s) \/ ~InClass(s[j + 1], cls)
HasClass(s, cls) == \E k \in 1..Len(s) : InClass(s[k], cls)

\* the number a run of decimal digits denotes
RECURSIVE Pow10(_)
Pow10(e) == IF e = 0 THEN 1 ELSE 10 * Pow10(e - 1)
RECURSIVE DecimalValue(_)
DecimalValue(s) ==
    IF s = <<>> THEN 0
    ELSE DigitVal(Head(s)) * Pow10(Len(s) - 1) + DecimalValue(Tail(s))

\* the duration text of a record of the input: the cell coerced to text
DurationText(r) ==
    LET c == InputCell(r, C_duration)
    IN  IF c.k = "str" THEN c.s ELSE S_nan

\* the quantity and the unit token the specification gives for a text
IsQuantity(s, q) ==
    IF HasClass(s, "digit")
    THEN \E i, j \in 1..Len(s) :
            IsFirstRun(s, i, j, "digit") /\ q = Num(DecimalValue(SubSeq(s, i, j)))
    ELSE q = NaN
IsUnit(s, u) ==
    IF HasClass(s, "alpha")
    THEN \E i, j \in 1..Len(s) :
            IsFirstRun(s, i, j, "alpha") /\ u = Txt(StrLower(SubSeq(s, i, j)))
    ELSE u = NaN

Derived ==
    /\ InputHas(C_duration)
    /\ ~InputHas(C_duration_minutes)
    /\ ~InputHas(C_duration_seasons)

----------------------------------------------------------------------------
(* C1: after normalization, at most one of duration_minutes and            *)
(* duration_seasons is populated in every record, derived or pre-existing. *)
(* This is the claim as stated; the program violates it.                   *)
C1_AtMostOnePopulated ==
    Normalized =>
        \A r \in Records :
            ~(Populated(r, C_duration_minutes) /\ Populated(r, C_duration_seasons))

(* C1, amended: after normalization a record has both fields populated     *)
(* only if both columns were already in the input, or the fields were      *)
(* derived and the unit token contains both "min" and "season"; otherwise  *)
(* at most one of them is populated.                                       *)
C1_BothOnlyIfPreexistingOrDoubleUnit ==
    Normalized =>
        \A r \in Records :
            (Populated(r, C_duration_minutes) /\ Populated(r, C_duration_seasons))
                => \/ InputHas(C_duration_minutes) /\ InputHas(C_duration_seasons)
                   \/ /\ Derived
                      /\ \E u \in {Cell(r, C_duration_unit)} :
                            /\ IsUnit(DurationText(r), u)
                            /\ StrIn(S_min, u.s)
                            /\ StrIn(S_season, u.s)

C1_Witness ==
    /\ Normalized
    /\ Derived
    /\ \E r \in Records :
          /\ DurationText(r) = T_90min
          /\ Populated(r, C_duration_minutes)
          /\ ~Populated(r, C_duration_seasons)

----------------------------------------------------------------------------
(* C2: when the fields are derived, the quantity is the first maximal run  *)
(* of decimal digits of the duration text, the unit token the first        *)
(* maximal run of letters, lowercased; duration_minutes is the quantity if *)
(* the unit contains "min" and absent otherwise, duration_seasons is the   *)
(* quantity if the unit contains "season" and absent otherwise; "90 min",  *)
(* "3 Seasons" and "N/A" give (90, absent), (absent, 3), (absent, absent). *)
C2_DerivedFields ==
    (Normalized /\ Derived) =>
        \A r \in Records :
            LET s == DurationText(r)
                q == Cell(r, C_duration_number)
                u == Cell(r, C_duration_unit)
                m == Cell(r, C_duration_minutes)
                e == Cell(r, C_duration_seasons)
            IN  /\ IsQuantity(s, q)
                /\ IsUnit(s, u)
                /\ m = IF u.k = "str" /\ StrIn(S_min, u.s) THEN q ELSE NaN
                /\ e = IF u.k = "str" /\ StrIn(S_season, u.s) THEN q ELSE NaN
                /\ s = T_90min => m = Num(90) /\ e = NaN
                /\ s = T_3Seasons => m = NaN /\ e = Num(3)
                /\ s = T_NA => m = NaN /\ e = NaN

C2_Witness ==
    /\ Normalized
    /\ Derived
    /\ \E r \in Records :
          /\ DurationText(r) = T_3Seasons
          /\ Cell(r, C_duration_seasons) = Num(3)

----------------------------------------------------------------------------
(* C3: when the input file exists, main() never ends in an error because   *)
(* a column is absent.                                                     *)
C3_NoErrorForAbsentColumn ==
    (file.exists /\ pc = "raised") => error.type # "KeyError"

----------------------------------------------------------------------------
(* C4: when the input file does not exist, the run ends with a             *)
(* FileNotFoundError whose message names the file and its directory,       *)
(* before any artifact is written and before the loader is called.         *)
C4_MissingFile ==
    ~file.exists =>
        /\ written = <<>>
        /\ ~loader_called
        /\ reads = <<>>
        /\ pc \in {"import", "main", "raised"}
        /\ pc = "raised" =>
              /\ error.type = "FileNotFoundError"
              /\ DATA_FILE \in Range(error.msg)
              /\ HERE \in Range(error.msg)

C4_Witness == ~file.exists /\ pc = "raised" /\ outDir

----------------------------------------------------------------------------
(* C5: the counts of count_by_type.csv sum to the number of records,       *)
(* records without a type included.                                        *)
RECURSIVE SumCounts(_)
SumCounts(entries) ==
    IF entries = <<>> THEN 0 ELSE Head(entries).count + SumCounts(Tail(entries))

CsvWritten == "count_by_type.csv" \in Range(written)

C5_CountsSumToTotal ==
    CsvWritten => SumCounts(by_type) = Len(InputTable.rows)

C5_Witness ==
    /\ CsvWritten
    /\ Len(InputTable.rows) >= 2
    /\ \E r \in 1..Len(InputTable.rows) : IsNa(InputCell(r, C_type))
    /\ \E r \in 1..Len(InputTable.rows) : ~IsNa(InputCell(r, C_type))

----------------------------------------------------------------------------
(* C6: the pivot has non-negative integer entries, its row index is the    *)
(* set of distinct years of the records kept by the year filter, in        *)
(* ascending order, and its column index is the set of their types.        *)
ParseableYear(c) ==
    \/ c.k = "num"
    \/ c.k = "str" /\ c.s # <<>> /\ \A i \in 1..Len(c.s) : IsDigit(c.s[i])
YearOf(c) == IF c.k = "num" THEN c.n ELSE DecimalValue(c.s)
Kept == {r \in Records : ParseableYear(Cell(r, C_release_year))}

C6_PivotShape ==
    pivot.made =>
        /\ \A i \in 1..Len(pivot.index) : \A j \in 1..Len(pivot.columns) :
              pivot.cells[i][j] \in Nat
        /\ Range(pivot.index) = {YearOf(Cell(r, C_release_year)) : r \in Kept}
        /\ Range(pivot.columns) = {Cell(r, C_type).s : r \in Kept}
        /\ \A i, j \in 1..Len(pivot.index) : i < j => pivot.index[i] < pivot.index[j]
        /\ \A i, j \in 1..Len(pivot.columns) : i # j => pivot.columns[i] # pivot.columns[j]

C6_Witness ==
    /\ pivot.made
    /\ Len(pivot.index) >= 2
    /\ Len(pivot.columns) >= 2
    /\ Cell(1, C_release_year) = Flt(2021, 5)
    /\ Kept = {1, 2}

----------------------------------------------------------------------------
(* C7: pick_title_sheet reads exactly one sheet: the first name of         *)
(* netflix_titles, titles, sheet1, Sheet1 that is a sheet of the file, or  *)
(* the first sheet of the file if none of them is.                         *)
C7_PreferredOrFirstSheet ==
    loader_called =>
        /\ Len(reads) = 1
        /\ IF \E j \in 1..Len(preferred) : preferred[j] \in Range(file.sheet_names)
           THEN \E j \in 1..Len(preferred) :
                   /\ reads[1] = preferred[j]
                   /\ preferred[j] \in Range(file.sheet_names)
                   /\ \A k \in 1..(j - 1) : preferred[k] \notin Range(file.sheet_names)
           ELSE reads[1] = file.sheet_names[1]
        /\ pc = "columns" => df = InputTable

C7_Witness ==
    /\ pc = "columns"
    /\ Len(file.sheet_names) >= 2
    /\ file.sheet_names[1] \notin Range(preferred)
    /\ reads = <<"titles">>
    /\ df = SheetTable("titles")

----------------------------------------------------------------------------
(* C8: whenever the input file exists, a run of main() that has ended has  *)
(* written summary.txt, whatever happened to the other artifacts.          *)
C8_SummaryAlwaysWritten ==
    (file.exists /\ pc \in {"done", "raised"}) => "summary.txt" \in Range(written)

----------------------------------------------------------------------------
(* C9: each cell of the pivot is the number of records kept by the year    *)
(* filter that have the cell's year and type.                              *)
C9_CellsCountRecords ==
    pivot.made =>
        \A i \in 1..Len(pivot.index) : \A j \in 1..Len(pivot.columns) :
            pivot.cells[i][j] =
                Cardinality({r \in Kept :
                    /\ YearOf(Cell(r, C_release_year)) = pivot.index[i]
                    /\ Cell(r, C_type).s = pivot.columns[j]})

----------------------------------------------------------------------------
(* C10: in the category-count table the records without a type are a       *)
(* category of their own: every entry counts either the records whose      *)
(* trimmed type text is the entry's value, or the records without a type,  *)
(* never both together.                                                    *)
TextCount(v) ==
    Cardinality({r \in 1..Len(InputTable.rows) :
        /\ InputCell(r, C_type).k = "str"
        /\ StrStrip(InputCell(r, C_type).s) = v})
MissingCount ==
    Cardinality({r \in 1..Len(InputTable.rows) : IsNa(InputCell(r, C_type))})

C10_MissingIsOwnCategory ==
    CsvWritten =>
        \A i \in 1..Len(by_type) :
            \/ by_type[i].count = TextCount(by_type[i].value.s)
            \/ by_type[i].count = MissingCount /\ TextCount(by_type[i].value.s) = 0

====
